---- MODULE Spec2Model ----
(***************************************************************************)
(* A model of rubipy.network.connection.Connection: the connection         *)
(* lifecycle (connect / disconnect), the retry-with-backoff request loop   *)
(* and the validation of the response envelope.                            *)
(*                                                                         *)
(* Every coroutine is cut at its await points: the HTTP call and the       *)
(* backoff sleep of request(), and the aclose() of disconnect().  The code *)
(* between two await points runs as one atomic action, which is how an     *)
(* asyncio event loop schedules it.                                        *)
(*                                                                         *)
(* Durations are counted in half seconds, so that the default backoff      *)
(* factor 0.5 is the integer 1.                                            *)
(***************************************************************************)
EXTENDS Integers, Sequences, FiniteSets, TLC

\* ------------------------------------------------------------------ bounds
\* Number of transport handles connect() may create in one behaviour.
MaxConnects == 2
\* Largest max_try argument handed to the constructor.
MaxTryArg == 2
\* Largest backoff_factor argument handed to the constructor (half seconds).
MaxBackoffArg == 1

\* --------------------------------------------------------- class constants
BASE_URL == "https://botapi.rubika.ir/v3"
MAX_RETRY == 3
\* 0.5 s, in half seconds
BACKOFF_FACTOR == 1

\* ----------------------------------------------------------- Python values
\* Optional[T]: None is the empty tuple, a present value v is <<v>>.
None == <<>>
Some(v) == <<v>>
\* `x or d` on an Optional number: None and 0 are falsy.
OrDefault(x, d) == IF x = None \/ x[1] = 0 THEN d ELSE x[1]
\* `x or d` on an Optional string: None and "" are falsy.
OrDefaultStr(x, d) == IF x = None \/ x[1] = "" THEN d ELSE x[1]
Max(a, b) == IF a >= b THEN a ELSE b
\* 2 ** n for n >= 0
RECURSIVE Pow2(_)
Pow2(n) == IF n <= 0 THEN 1 ELSE 2 * Pow2(n - 1)
\* dict.get(k, default)
Get(d, k, default) == IF k \in DOMAIN d THEN d[k] ELSE default
\* dict.get(k), as an Optional
GetOpt(d, k) == IF k \in DOMAIN d THEN Some(d[k]) ELSE None
\* str.upper() on the status strings the model uses
Upper(s) ==
    CASE s = "ok" -> "OK"
      [] s = "Ok" -> "OK"
      [] s = "error" -> "ERROR"
      [] OTHER -> s

\* ------------------------------------------------------------ input domains
Handles == 1 .. MaxConnects
\* The request() calls of a behaviour; Solo is the one call the sequential
\* specifications make.
Requests == {"r1", "r2"}
Solo == {"r1"}
Tokens == {"T"}
BaseUrlArgs == {None, Some("https://x/v3")}
MaxTryArgs == {None} \cup {Some(n) : n \in -1 .. MaxTryArg}
BackoffArgs == {None} \cup {Some(n) : n \in -1 .. MaxBackoffArg}
Endpoints == {"e", "sendText"}

\* The empty mapping {} that data defaults to.
EmptyMap == <<>>
\* Response envelopes the remote side may send (parsed JSON objects).
Envelopes ==
    { [status |-> "OK", data |-> [x |-> 1]],
      [status |-> "ok"],
      [status |-> "ERROR", dev_message |-> "bad token"],
      [status |-> "error"],
      [data |-> [x |-> 1]] }
\* What one HTTP attempt can come back with: a transport-level error, a
\* non-2xx status (raise_for_status), or a 2xx response whose body is or is
\* not JSON.
Responses ==
    { [kind |-> "HTTPError"], [kind |-> "HTTPStatusError"],
      [kind |-> "2xx", json |-> FALSE] }
    \cup { [kind |-> "2xx", json |-> TRUE, body |-> e] : e \in Envelopes }

VARIABLES
    token, base_url, max_retry, backoff_factor,  \* configuration
    max_try_arg, backoff_arg,                    \* the constructor's arguments
    client, is_connected,                        \* self._client, self._is_connected
    handles,                                     \* state of every AsyncClient created
    closing,                                     \* disconnect() calls suspended in aclose()
    last,                                        \* the lifecycle call that returned last
    req                                          \* the request() calls

config == <<token, base_url, max_retry, backoff_factor, max_try_arg, backoff_arg>>
conn == <<client, is_connected>>
vars == <<token, base_url, max_retry, backoff_factor, max_try_arg, backoff_arg,
          client, is_connected, handles, closing, last, req>>

\* ------------------------------------------------------------- construction
\* Variant of ClampMaxRetry without the floor.
ClampMaxRetry_NoFloor(arg) == OrDefault(arg, MAX_RETRY)
\* max(1, max_try or MAX_RETRY)
ClampMaxRetry(arg) == Max(1, OrDefault(arg, MAX_RETRY))
\* max(0.0, backoff_factor or BACKOFF_FACTOR)
ClampBackoff(arg) == Max(0, OrDefault(arg, BACKOFF_FACTOR))

NoCall == [op |-> "none", result |-> "none", pre |-> <<FALSE, None>>, post |-> <<FALSE, None>>]
IdleRequest ==
    [pc |-> "idle", endpoint |-> "", url |-> "", attempt |-> 0, issued |-> 0,
     fails |-> 0, delays |-> <<>>, handle |-> None, call_connected |-> FALSE,
     response |-> None, urls |-> {}, result |-> [kind |-> "none"]]

Init ==
    /\ token \in Tokens
    /\ \E b \in BaseUrlArgs : base_url = OrDefaultStr(b, BASE_URL)
    /\ max_try_arg \in MaxTryArgs
    /\ backoff_arg \in BackoffArgs
    /\ max_retry = ClampMaxRetry(max_try_arg)
    /\ backoff_factor = ClampBackoff(backoff_arg)
    /\ client = None
    /\ is_connected = FALSE
    /\ handles = [h \in Handles |-> "unborn"]
    /\ closing = {}
    /\ last = NoCall
    /\ req = [r \in Requests |-> IdleRequest]

\* ---------------------------------------------------------------- connect()
\* connect() has no await: guard, allocation and flag are one step.
ConnectOk_NoGuard ==
    /\ \E h \in Handles :
        /\ handles[h] = "unborn"
        /\ \A g \in Handles : g < h => handles[g] # "unborn"
        /\ handles' = [handles EXCEPT ![h] = "open"]
        /\ client' = Some(h)
        /\ is_connected' = TRUE
        /\ last' = [op |-> "connect", result |-> "ok",
                    pre |-> <<is_connected, client>>, post |-> <<TRUE, Some(h)>>]
    /\ UNCHANGED <<config, closing, req>>

ConnectFail ==
    /\ is_connected
    /\ last' = [op |-> "connect", result |-> "ConnectionError",
                pre |-> <<is_connected, client>>, post |-> <<is_connected, client>>]
    /\ UNCHANGED <<config, client, is_connected, handles, closing, req>>

ConnectOk ==
    /\ ~is_connected
    /\ \E h \in Handles :
        /\ handles[h] = "unborn"
        /\ \A g \in Handles : g < h => handles[g] # "unborn"
        /\ handles' = [handles EXCEPT ![h] = "open"]
        /\ client' = Some(h)
        /\ is_connected' = TRUE
        /\ last' = [op |-> "connect", result |-> "ok",
                    pre |-> <<is_connected, client>>, post |-> <<TRUE, Some(h)>>]
    /\ UNCHANGED <<config, closing, req>>

\* ------------------------------------------------------------- disconnect()
DisconnectFail ==
    /\ ~is_connected
    /\ last' = [op |-> "disconnect", result |-> "ConnectionError",
                pre |-> <<is_connected, client>>, post |-> <<is_connected, client>>]
    /\ UNCHANGED <<config, client, is_connected, handles, closing, req>>

\* Guard passed, flag cleared, and the coroutine is suspended in
\* `await self._client.aclose()`; the handle is closing from here on.
DisconnectBegin ==
    /\ is_connected
    /\ client # None
    /\ is_connected' = FALSE
    /\ handles' = [handles EXCEPT ![client[1]] = "closing"]
    /\ closing' = closing \cup {[handle |-> client[1], pre |-> <<is_connected, client>>]}
    /\ UNCHANGED <<config, client, last, req>>

\* Guard passed and flag cleared, but self._client is None:
\* `self._client.aclose()` raises AttributeError.
DisconnectNoClient ==
    /\ is_connected
    /\ client = None
    /\ is_connected' = FALSE
    /\ last' = [op |-> "disconnect", result |-> "AttributeError",
                pre |-> <<is_connected, client>>, post |-> <<FALSE, client>>]
    /\ UNCHANGED <<config, client, handles, closing, req>>

\* aclose() returns: the reference is cleared, whatever it refers to by now.
DisconnectEnd ==
    \E d \in closing :
        /\ closing' = closing \ {d}
        /\ handles' = [handles EXCEPT ![d.handle] = "closed"]
        /\ client' = None
        /\ last' = [op |-> "disconnect", result |-> "ok",
                    pre |-> d.pre, post |-> <<is_connected, None>>]
        /\ UNCHANGED <<config, is_connected, req>>

\* ---------------------------------------------------------------- request()
\* Variant of RequestUrl that leaves the token out.
RequestUrl_NoToken(endpoint) == base_url \o "/" \o endpoint
\* _request_url: f'{base_url}/{token}/{endpoint}'
RequestUrl(endpoint) == base_url \o "/" \o token \o "/" \o endpoint

\* Variant of WaitFor with the exponent off by one.
WaitFor_ExponentOffByOne(attempt) == backoff_factor * Pow2(attempt)
\* wait_for = backoff_factor * (2 ** (attempt - 1))
WaitFor(attempt) == backoff_factor * Pow2(attempt - 1)

\* for attempt in range(1, self.max_retry + 1): is there an attempt after
\* this one?
LoopContinues_OffByOne(attempt) == attempt + 1 <= max_retry + 1
LoopContinues(attempt) == attempt + 1 <= max_retry

Raised(q, kind) == [q EXCEPT !.pc = "done", !.result = [kind |-> kind]]

\* One pass through the head of the loop body, up to the await of
\* `self._client.request(...)` for attempt number k.  self._client is read
\* here, at every attempt.  On None the attribute access raises
\* AttributeError.  On a handle that disconnect() is closing or has closed the
\* transport either refuses the call (RuntimeError) or takes it.
IssueAttempt(q, k) ==
    LET base == [q EXCEPT !.attempt = k, !.issued = q.issued + 1]
        sent == [base EXCEPT !.pc = "http", !.handle = client,
                             !.urls = q.urls \cup {q.url}]
    IN  IF client = None
        THEN {Raised(base, "AttributeError")}
        ELSE IF handles[client[1]] = "open"
             THEN {sent}
             ELSE {sent, Raised(base, "RuntimeError")}

\* request() is called while self._client is None.
RequestNotConnected(r) ==
    /\ req[r].pc = "idle"
    /\ client = None
    /\ \E ep \in Endpoints :
        req' = [req EXCEPT ![r] =
                  Raised([@ EXCEPT !.endpoint = ep, !.call_connected = is_connected],
                         "ConnectionError")]
    /\ UNCHANGED <<config, conn, handles, closing, last>>

\* request() is called with a client: the URL is built and attempt 1 issued.
RequestCall(r) ==
    /\ req[r].pc = "idle"
    /\ client # None
    /\ \E ep \in Endpoints :
        \E q \in IssueAttempt([req[r] EXCEPT !.endpoint = ep,
                                             !.url = RequestUrl(ep),
                                             !.call_connected = is_connected], 1) :
            req' = [req EXCEPT ![r] = q]
    /\ UNCHANGED <<config, conn, handles, closing, last>>

\* Variants of HandleEnvelope: one retries an error envelope, one compares
\* the status without upper().
HandleEnvelope_RetryOnError(q, data) ==
    LET status == GetOpt(data, "status")
    IN  IF status = None
        THEN Raised(q, "AttributeError")
        ELSE IF Upper(status[1]) # "OK"
             THEN [q EXCEPT !.pc = "sleep", !.fails = q.fails + 1,
                            !.delays = Append(q.delays, WaitFor(q.attempt))]
             ELSE [q EXCEPT !.pc = "done",
                            !.result = [kind |-> "return",
                                        value |-> Get(data, "data", EmptyMap)]]

HandleEnvelope_CaseSensitive(q, data) ==
    LET status == GetOpt(data, "status")
    IN  IF status = None
        THEN Raised(q, "AttributeError")
        ELSE IF status[1] # "OK"
             THEN [q EXCEPT !.pc = "done",
                            !.result = [kind |-> "APIError", why |-> "status",
                                        endpoint |-> q.endpoint, status |-> status[1],
                                        message |-> Get(data, "dev_message", "Unknown error")]]
             ELSE [q EXCEPT !.pc = "done",
                            !.result = [kind |-> "return",
                                        value |-> Get(data, "data", EmptyMap)]]

\* The body of the inner try, for a parsed JSON body `data`.
HandleEnvelope(q, data) ==
    LET status == GetOpt(data, "status")
    IN  IF status = None
        THEN Raised(q, "AttributeError")
        ELSE IF Upper(status[1]) # "OK"
             THEN [q EXCEPT !.pc = "done",
                            !.result = [kind |-> "APIError", why |-> "status",
                                        endpoint |-> q.endpoint, status |-> status[1],
                                        message |-> Get(data, "dev_message", "Unknown error")]]
             ELSE [q EXCEPT !.pc = "done",
                            !.result = [kind |-> "return",
                                        value |-> Get(data, "data", EmptyMap)]]

\* Variant of HandleResponse that retries a body that is not JSON.
HandleResponse_RetryOnBadJson(q, resp) ==
    LET got == [q EXCEPT !.handle = None, !.response = Some(resp)]
    IN  IF resp.kind \in {"HTTPStatusError", "HTTPError"} \/ ~resp.json
        THEN [got EXCEPT !.pc = "sleep", !.fails = q.fails + 1,
                         !.delays = Append(q.delays, WaitFor(q.attempt))]
        ELSE HandleEnvelope(got, resp.body)

\* Variant of HandleResponse that goes straight to the next attempt after a
\* retryable failure, without awaiting the sleep.
HandleResponse_NoSleep(q, resp) ==
    LET got == [q EXCEPT !.handle = None, !.response = Some(resp)]
    IN  IF resp.kind \in {"HTTPStatusError", "HTTPError"}
        THEN IF LoopContinues(q.attempt)
             THEN [got EXCEPT !.pc = "http", !.fails = q.fails + 1,
                              !.attempt = q.attempt + 1, !.issued = q.issued + 1,
                              !.handle = q.handle]
             ELSE [got EXCEPT !.pc = "sleep", !.fails = q.fails + 1,
                              !.delays = Append(q.delays, WaitFor(q.attempt))]
        ELSE IF ~resp.json
             THEN [got EXCEPT !.pc = "done",
                              !.result = [kind |-> "APIError", why |-> "json",
                                          endpoint |-> q.endpoint]]
             ELSE HandleEnvelope(got, resp.body)

\* What the loop body does with the outcome of the awaited HTTP call, up to
\* the next await (the sleep) or the end of the call.
HandleResponse(q, resp) ==
    LET got == [q EXCEPT !.handle = None, !.response = Some(resp)]
    IN  IF resp.kind \in {"HTTPStatusError", "HTTPError"}
        THEN [got EXCEPT !.pc = "sleep", !.fails = q.fails + 1,
                         !.delays = Append(q.delays, WaitFor(q.attempt))]
        ELSE IF ~resp.json
             THEN [got EXCEPT !.pc = "done",
                              !.result = [kind |-> "APIError", why |-> "json",
                                          endpoint |-> q.endpoint]]
             ELSE HandleEnvelope(got, resp.body)

\* Variant of HttpReturn in which a call waits for the other calls that are
\* suspended in a backoff sleep.
HttpReturn_Serialized(r) ==
    /\ req[r].pc = "http"
    /\ \A o \in Requests \ {r} : req[o].pc # "sleep"
    /\ \E resp \in Responses :
        req' = [req EXCEPT ![r] = HandleResponse(req[r], resp)]
    /\ UNCHANGED <<config, conn, handles, closing, last>>

\* The awaited HTTP call of request r comes back.
HttpReturn(r) ==
    /\ req[r].pc = "http"
    /\ \E resp \in Responses :
        req' = [req EXCEPT ![r] = HandleResponse(req[r], resp)]
    /\ UNCHANGED <<config, conn, handles, closing, last>>

\* The backoff sleep of request r is over and another attempt is left.
SleepRetry(r) ==
    /\ req[r].pc = "sleep"
    /\ LoopContinues(req[r].attempt)
    /\ \E q \in IssueAttempt(req[r], req[r].attempt + 1) :
        req' = [req EXCEPT ![r] = q]
    /\ UNCHANGED <<config, conn, handles, closing, last>>

\* Variant of SleepExhausted whose test for the end of the loop never fires.
SleepExhausted_NeverEnds(r) ==
    /\ req[r].pc = "sleep"
    /\ ~LoopContinues(req[r].attempt)
    /\ req[r].attempt > max_retry
    /\ req' = [req EXCEPT ![r] =
                 [@ EXCEPT !.pc = "done",
                           !.result = [kind |-> "APIError", why |-> "exhausted",
                                       endpoint |-> req[r].endpoint,
                                       attempts |-> max_retry]]]
    /\ UNCHANGED <<config, conn, handles, closing, last>>

\* Variant of SleepExhausted that drops the connection when it gives up.
SleepExhausted_Closes(r) ==
    /\ req[r].pc = "sleep"
    /\ ~LoopContinues(req[r].attempt)
    /\ req' = [req EXCEPT ![r] =
                 [@ EXCEPT !.pc = "done",
                           !.result = [kind |-> "APIError", why |-> "exhausted",
                                       endpoint |-> req[r].endpoint,
                                       attempts |-> max_retry]]]
    /\ is_connected' = FALSE
    /\ client' = None
    /\ UNCHANGED <<config, handles, closing, last>>

\* The backoff sleep of request r is over and the loop has run out.
SleepExhausted(r) ==
    /\ req[r].pc = "sleep"
    /\ ~LoopContinues(req[r].attempt)
    /\ req' = [req EXCEPT ![r] =
                 [@ EXCEPT !.pc = "done",
                           !.result = [kind |-> "APIError", why |-> "exhausted",
                                       endpoint |-> req[r].endpoint,
                                       attempts |-> max_retry]]]
    /\ UNCHANGED <<config, conn, handles, closing, last>>

Next ==
    \/ ConnectFail
    \/ ConnectOk
    \/ DisconnectFail
    \/ DisconnectBegin
    \/ DisconnectNoClient
    \/ DisconnectEnd
    \/ \E r \in Solo : RequestNotConnected(r)
    \/ \E r \in Solo : RequestCall(r)
    \/ \E r \in Solo : HttpReturn(r)
    \/ \E r \in Solo : SleepRetry(r)
    \/ \E r \in Solo : SleepExhausted(r)

Spec == Init /\ [][Next]_vars

\* Lifecycle calls made one after the other: connect() and disconnect() start
\* only when no disconnect() is suspended.  request() still runs alongside.
NoLifecycleCallPending == closing = {}

NextSeq ==
    \/ NoLifecycleCallPending /\ ConnectFail
    \/ NoLifecycleCallPending /\ ConnectOk
    \/ NoLifecycleCallPending /\ DisconnectFail
    \/ NoLifecycleCallPending /\ DisconnectBegin
    \/ DisconnectEnd
    \/ \E r \in Solo : RequestNotConnected(r)
    \/ \E r \in Solo : RequestCall(r)
    \/ \E r \in Solo : HttpReturn(r)
    \/ \E r \in Solo : SleepRetry(r)
    \/ \E r \in Solo : SleepExhausted(r)

SpecSeq == Init /\ [][NextSeq]_vars

\* Spec with the assumption that every awaited HTTP call and every awaited
\* sleep of a request() comes back.
Completion ==
    \A r \in Solo :
        /\ WF_vars(HttpReturn(r))
        /\ WF_vars(SleepRetry(r))
        /\ WF_vars(SleepExhausted(r))

\* The backoff factor and the base URL play no part in termination: they are
\* left at their defaults, the max-retry argument ranges over MaxTryArgs.
InitLive ==
    /\ Init
    /\ base_url = BASE_URL
    /\ backoff_arg = None

SpecLive == InitLive /\ [][Next]_vars /\ Completion

\* Two request() calls running concurrently on one Connection built with the
\* default base URL and backoff factor, alongside any lifecycle calls.
ConcMaxTryArgs == {Some(1), Some(2)}

InitConc ==
    /\ Init
    /\ base_url = BASE_URL
    /\ max_try_arg \in ConcMaxTryArgs
    /\ backoff_arg = None

NextConc ==
    \/ ConnectFail
    \/ ConnectOk
    \/ DisconnectFail
    \/ DisconnectBegin
    \/ DisconnectNoClient
    \/ DisconnectEnd
    \/ \E r \in Requests : RequestNotConnected(r)
    \/ \E r \in Requests : RequestCall(r)
    \/ \E r \in Requests : HttpReturn(r)
    \/ \E r \in Requests : SleepRetry(r)
    \/ \E r \in Requests : SleepExhausted(r)

SpecConc == InitConc /\ [][NextConc]_vars

\* =================================================================== claims
Started(r) == req[r].pc # "idle"
Done(r) == req[r].pc = "done"
Exhausted(r) ==
    [kind |-> "APIError", why |-> "exhausted",
     endpoint |-> req[r].endpoint, attempts |-> max_retry]
\* The response of the latest attempt of r is a JSON envelope carrying a status.
GotEnvelope(r) ==
    /\ req[r].response # None
    /\ req[r].response[1].kind = "2xx"
    /\ req[r].response[1].json
    /\ "status" \in DOMAIN req[r].response[1].body
EnvelopeOf(r) == req[r].response[1].body
\* "OK" in any letter case
IsOk(status) == status \in {"OK", "Ok", "oK", "ok"}
\* Every attempt before the latest one failed and was followed by one sleep,
\* and nothing follows the latest one.
EndedAtLatestAttempt(r) ==
    /\ Done(r)
    /\ req[r].issued = req[r].fails + 1
    /\ Len(req[r].delays) = req[r].fails

\* C1: the connected flag is true exactly when the transport handle is
\* non-null, in every reachable state, suspension points included.
C1_ConnectedIffHandle == is_connected <=> client # None

\* C2: a request() called while the connected flag is false fails with
\* ConnectionError, issues no HTTP attempt and does not sleep.
C2_NotConnectedRequestFails ==
    \A r \in Requests :
        Started(r) /\ ~req[r].call_connected =>
            /\ req[r].result = [kind |-> "ConnectionError"]
            /\ req[r].issued = 0
            /\ req[r].delays = <<>>

\* C3: a request() never makes more than max_retry attempts, and one whose
\* attempts all failed with a transport or HTTP status error made exactly
\* max_retry of them and failed with APIError (retries exhausted).
C3_ExhaustedAfterMaxRetry ==
    \A r \in Requests :
        /\ req[r].issued <= max_retry
        /\ Done(r) /\ req[r].issued >= 1 /\ req[r].fails = req[r].issued =>
              req[r].result = Exhausted(r) /\ req[r].issued = max_retry
        /\ req[r].result.kind = "APIError" /\ req[r].result.why = "exhausted" =>
              req[r].fails = max_retry
C3_Witness ==
    \E r \in Requests :
        max_retry = 3 /\ req[r].result = Exhausted(r) /\ req[r].issued = 3

\* C4: a request() sleeps only between two attempts, never after the last
\* permitted one, so one whose max_retry attempts all failed slept
\* max_retry - 1 times.
C4_NoSleepAfterLastAttempt ==
    \A r \in Requests :
        /\ req[r].pc = "sleep" => req[r].attempt < max_retry
        /\ req[r].result = Exhausted(r) => Len(req[r].delays) = max_retry - 1

\* C5: an envelope whose status is not OK (in any letter case) ends the
\* request() at that attempt with APIError carrying the endpoint, the status
\* and dev_message (default "Unknown error"): no retry, no sleep after it.
C5_ErrorEnvelopeFailsAtOnce ==
    \A r \in Requests :
        GotEnvelope(r) /\ ~IsOk(EnvelopeOf(r).status) =>
            /\ EndedAtLatestAttempt(r)
            /\ req[r].result =
                  [kind |-> "APIError", why |-> "status",
                   endpoint |-> req[r].endpoint,
                   status |-> EnvelopeOf(r).status,
                   message |-> IF "dev_message" \in DOMAIN EnvelopeOf(r)
                               THEN EnvelopeOf(r).dev_message
                               ELSE "Unknown error"]
C5_Witness ==
    \E r \in Requests :
        /\ GotEnvelope(r) /\ EnvelopeOf(r).status = "ERROR"
        /\ max_retry = 3 /\ req[r].issued = 2
        /\ req[r].result.kind = "APIError" /\ req[r].result.message = "bad token"

\* C6: a 2xx response whose body is not JSON ends the request() at that
\* attempt with APIError (malformed response), not with the retries-exhausted
\* error: no retry, no sleep after it.
C6_BadJsonFailsAtOnce ==
    \A r \in Requests :
        /\ req[r].response # None
        /\ req[r].response[1].kind = "2xx"
        /\ ~req[r].response[1].json
        => /\ EndedAtLatestAttempt(r)
           /\ req[r].result = [kind |-> "APIError", why |-> "json",
                               endpoint |-> req[r].endpoint]
C6_Witness ==
    \E r \in Requests :
        /\ req[r].response = Some([kind |-> "2xx", json |-> FALSE])
        /\ max_retry = 3 /\ req[r].issued = 1
        /\ req[r].result.kind = "APIError" /\ req[r].result.why = "json"

\* C7: when attempts 1..k-1 failed with transport or HTTP status errors and
\* attempt k (k <= max_retry) yields an envelope with status OK, request()
\* returns the envelope's data ({} when absent) after k attempts and k-1
\* sleeps and makes no further attempt.
C7_OkEnvelopeReturnsData ==
    \A r \in Requests :
        GotEnvelope(r) /\ IsOk(EnvelopeOf(r).status) =>
            /\ EndedAtLatestAttempt(r)
            /\ req[r].issued <= max_retry
            /\ req[r].result =
                  [kind |-> "return",
                   value |-> IF "data" \in DOMAIN EnvelopeOf(r)
                             THEN EnvelopeOf(r).data ELSE EmptyMap]
C7_Witness ==
    \E r \in Requests :
        /\ GotEnvelope(r) /\ EnvelopeOf(r).status = "ok"
        /\ req[r].issued = 3 /\ Len(req[r].delays) = 2
        /\ req[r].result = [kind |-> "return", value |-> EmptyMap]

\* C8: over lifecycle calls made one after the other, connect() succeeds
\* exactly when not connected (and leaves the Connection connected) and fails
\* with ConnectionError otherwise; disconnect() succeeds exactly when
\* connected (and leaves it not connected) and fails with ConnectionError
\* otherwise.
C8_LifecycleGuards ==
    /\ last.op = "connect" =>
          /\ last.result = (IF last.pre[1] THEN "ConnectionError" ELSE "ok")
          /\ last.post[1]
    /\ last.op = "disconnect" =>
          /\ last.result = (IF last.pre[1] THEN "ok" ELSE "ConnectionError")
          /\ ~last.post[1]
C8_Witness ==
    /\ last.op = "disconnect" /\ last.result = "ConnectionError"
    /\ handles[1] = "closed"

\* C9: a connect() or disconnect() call that fails leaves the connected flag
\* and the transport handle as they were before the call.
C9_FailedCallKeepsState ==
    last.result \notin {"none", "ok"} => last.post = last.pre

\* C10: a step of request() leaves the connected flag, the handle and the
\* configuration unchanged; the flag and the handle change only in a step of
\* connect() or disconnect().
C10_RequestFrame ==
    [][ /\ req' # req => UNCHANGED <<conn, config>>
        /\ conn' # conn => req' = req /\ (last' # last \/ closing' # closing)
        /\ UNCHANGED <<token, base_url, max_retry, backoff_factor>> ]_vars
C10_Witness ==
    \E r \in Requests :
        /\ req[r].result = Exhausted(r)
        /\ is_connected /\ client # None /\ handles[client[1]] = "open"

\* C11: whatever max-retry and backoff arguments were supplied (omitted,
\* zero, negative, positive), max_retry >= 1 and backoff_factor >= 0 after
\* construction and in every state reached afterwards.
C11_ClampedConfiguration == max_retry >= 1 /\ backoff_factor >= 0
C11_Witness ==
    /\ max_try_arg = Some(-1) /\ backoff_arg = Some(-1)
    /\ \E r \in Requests : Done(r) /\ req[r].issued = 1 /\ req[r].delays = <<0>>

\* C12: a default is applied only to an omitted option; a supplied value is
\* clamped: max_retry = max(1, supplied) and backoff_factor = max(0, supplied),
\* a supplied 0 included.
C12_DefaultOnlyWhenOmitted ==
    /\ max_retry = (IF max_try_arg = None THEN 3
                    ELSE IF max_try_arg[1] >= 1 THEN max_try_arg[1] ELSE 1)
    /\ backoff_factor = (IF backoff_arg = None THEN 1
                         ELSE IF backoff_arg[1] >= 0 THEN backoff_arg[1] ELSE 0)

\* C13: every HTTP attempt of request(endpoint) goes to
\* base_url + "/" + token + "/" + endpoint, all attempts of one request to the
\* same URL ("https://x/v3", "T", "e" gives "https://x/v3/T/e"), and base_url
\* and token never change after construction.
C13_UrlOf(b, t, e) ==
    CASE b = "https://x/v3" /\ t = "T" /\ e = "e" -> "https://x/v3/T/e"
      [] b = "https://x/v3" /\ t = "T" /\ e = "sendText" -> "https://x/v3/T/sendText"
      [] b = "https://botapi.rubika.ir/v3" /\ t = "T" /\ e = "e" ->
             "https://botapi.rubika.ir/v3/T/e"
      [] b = "https://botapi.rubika.ir/v3" /\ t = "T" /\ e = "sendText" ->
             "https://botapi.rubika.ir/v3/T/sendText"
      [] OTHER -> "?"
C13_AttemptUrl ==
    /\ [](\A r \in Requests :
            req[r].urls \subseteq {C13_UrlOf(base_url, token, req[r].endpoint)})
    /\ [][UNCHANGED <<token, base_url>>]_vars
C13_Witness ==
    \E r \in Requests :
        /\ req[r].issued = 3 /\ req[r].pc = "http" /\ req[r].endpoint = "e"
        /\ req[r].urls = {"https://x/v3/T/e"}

\* C14: concurrent request() calls are isolated: a step of one call leaves
\* the other call's record untouched, a call suspended in an HTTP attempt or a
\* sleep can always take its next step whatever the other call is doing, and
\* each call's attempts, sleeps and exhaustion count only its own failures.
C14_OwnCounters(r) ==
    /\ req[r].issued <= max_retry
    /\ req[r].fails <= req[r].issued
    /\ Len(req[r].delays) = req[r].fails
    /\ req[r].result = Exhausted(r) => req[r].fails = max_retry
    /\ req[r].response # None /\ req[r].response[1].kind = "2xx" =>
          Done(r) /\ req[r].issued = req[r].fails + 1
C14_CanProceed(r) ==
    /\ req[r].pc = "http" => ENABLED HttpReturn(r)
    /\ req[r].pc = "sleep" => ENABLED (SleepRetry(r) \/ SleepExhausted(r))
    /\ req[r].pc = "idle" => ENABLED (RequestCall(r) \/ RequestNotConnected(r))
C14_Isolation ==
    /\ [](\A r \in Requests : C14_OwnCounters(r) /\ C14_CanProceed(r))
    /\ [][\A r \in Requests :
             req'[r] # req[r] => \A o \in Requests \ {r} : req'[o] = req[o]]_vars
C14_Witness ==
    /\ req["r1"].pc = "sleep" /\ req["r1"].fails = 2
    /\ req["r2"].result.kind = "return" /\ req["r2"].issued = 1
    /\ is_connected

\* C15: the delay slept after failed attempt k is backoff_factor * 2^(k-1):
\* backoff_factor after attempt 1 and twice the previous delay after each
\* further failed attempt, whatever the endpoint and the kind of failure.
C15_BackoffDelays ==
    \A r \in Requests :
        \A k \in 1 .. Len(req[r].delays) :
            req[r].delays[k] =
                (IF k = 1 THEN backoff_factor ELSE 2 * req[r].delays[k - 1])
C15_Witness ==
    \E r \in Requests : backoff_factor = 1 /\ req[r].delays = <<1, 2, 4>>

\* C16: the attempts of one request() are sequential: at most one attempt is
\* unfinished at any time, and attempt k+1 is issued only from the sleep that
\* followed attempt k, which ended in a transport or HTTP status error.
C16_SequentialAttempts ==
    /\ [](\A r \in Requests :
            /\ req[r].issued - req[r].fails <= 1
            /\ req[r].pc = "http" => req[r].issued = req[r].fails + 1)
    /\ [][\A r \in Requests :
             req'[r].issued # req[r].issued /\ req[r].issued >= 1 =>
                /\ req'[r].issued = req[r].issued + 1
                /\ req[r].pc = "sleep"
                /\ req[r].response[1].kind \in {"HTTPError", "HTTPStatusError"}
                /\ req[r].fails = req[r].issued
                /\ Len(req[r].delays) = req[r].issued]_vars
C16_Witness ==
    \E r \in Requests :
        req[r].pc = "http" /\ req[r].issued = 3 /\ Len(req[r].delays) = 2

\* C17: when every HTTP attempt and every backoff sleep completes, every
\* request() call that was started eventually ends, by returning or raising,
\* whatever the outcomes of its attempts.
C17_RequestTerminates ==
    \A r \in Requests : Started(r) ~> Done(r)
C17_Witness ==
    \E r \in Requests :
        max_retry = 2 /\ Done(r) /\ req[r].fails = 2 /\ req[r].result = Exhausted(r)

\* C18: every request() call ends by returning data, by ConnectionError or by
\* APIError and by nothing else, for every attempt outcome (status absent
\* included) and every interleaving with disconnect().
C18_OnlyDeclaredOutcomes ==
    \A r \in Requests :
        Done(r) => req[r].result.kind \in {"return", "ConnectionError", "APIError"}

\* C19: no HTTP attempt, first or retried, is issued on a handle once
\* disconnect() has marked the Connection not-connected and started to close
\* or released that handle.
C19_NoAttemptOnClosedHandle ==
    [][\A r \in Requests :
          req'[r].issued # req[r].issued /\ client # None =>
              is_connected /\ handles[client[1]] = "open"]_vars

\* C20: no handle leaks: at most one handle is open or being closed at any
\* time, an open handle is the one the Connection references, and a handle is
\* closed before the next one is created, for every interleaving of connect()
\* and disconnect().
C20_NoHandleLeak ==
    /\ Cardinality({h \in Handles : handles[h] \in {"open", "closing"}}) <= 1
    /\ \A h \in Handles : handles[h] = "open" => client = Some(h)
====
